---- MODULE Spec2Model ----
(***************************************************************************)
(* gaukas/benchmarkconn: the benchmark execution engine.                   *)
(*                                                                         *)
(* Two peers, a writer and a reader, each own one benchmark instance       *)
(* (PressuredBenchmark or IntervalBenchmark) and share a full-duplex byte  *)
(* stream.  The model covers the handshake, the two transfer loops, the    *)
(* echo-listener of the paced writer, the CombinedCounter's tick loop and  *)
(* Result().  One step of a task runs from one blocking call (conn.Read,   *)
(* conn.Write, io.ReadFull, <-ticker.C, wgEcho.Wait, select) to the next.  *)
(*                                                                         *)
(* Time: each peer has a clock, now[p], holding the latest value any of    *)
(* its tasks read or waited for.  A step that calls time.Now(), or that    *)
(* returns from waiting for a timer, moves the clock forward by a delay    *)
(* from Delays (past the timer's due time) and reads it.                   *)
(***************************************************************************)
EXTENDS Integers, Sequences, FiniteSets, TLC

(* ------------------------------ bounds -------------------------------- *)

\* TotalMessages is drawn from 1..MaxTotal
MaxTotal == 2
\* MessageSize is drawn from 1..MaxMsgSize
MaxMsgSize == 2
\* Interval is drawn from 0..MaxInterval (clock units)
MaxInterval == 1
\* bytes one direction of the transport holds before a write blocks
BufCap == 2
\* transport faults (I/O error, short or fragmented transfer, stall, close by
\* the timeout watcher) injected into one run of the faulty environment
MaxFaults == 1
\* Counters handed to Writer/Reader
NumCounters == 1
MaxRuns == 2

\* time.Second, in clock units
OneSecond == 2

\* an atomic.Value never stored to (Load() returns nil); real times are >= 1
Unset == 0

\* clock units that may pass between two clock readings of a peer
Delays == {0, 1}

(* ------------------------------ names --------------------------------- *)

W == "writer"
R == "reader"
Peers == {W, R}
Peer(p) == IF p = W THEN R ELSE W

Modes == {"pressured", "interval"}
\* "ideal": no I/O error, no fragmentation, no echo staying away for longer
\* than the listener's deadline, and the conn is closed only by the
\* caller's `defer c.Close()` after the call returned.
\* "closing": the transport is ideal, but up to MaxFaults times the timeout
\* watcher closes a conn under a call that is still running.
\* "faulty": up to MaxFaults of all these happen.
Envs == {"ideal", "closing", "faulty"}

\* the byte values crand.Read may fill a message with
Payloads == {"A", "B"}

NoErr == "nil"
ErrSpecWrite == "failed to write the spec to the connection"
ErrSpecRead == "failed to read the spec from the connection"
ErrSpecMismatch == "benchmark specs do not match, aborting"
ErrEOF == "EOF"
ErrUnexpectedEOF == "unexpected EOF"
ErrClosed == "use of closed network connection"
ErrDeadline == "i/o timeout"
ErrIO == "transport error"

Min(x, y) == IF x < y THEN x ELSE y
Max(x, y) == IF x > y THEN x ELSE y

(* ------------------------------ state --------------------------------- *)

VARIABLES
  mode,     \* which Benchmark implementation both peers run
  env,      \* the transport's behaviour class
  cfg,      \* cfg[p]: the exported fields of p's benchmark instance
  pc,       \* pc[p]: where p's Writer/Reader call stands
  err,      \* err[p]: the error the call returned
  out,      \* out[p]: bytes written by p, not yet read by its peer
  closed,   \* closed[p]: p's end of the conn has been Close()d
  faults,   \* transport faults injected so far
  now,      \* now[p]: p's clock
  b,        \* b[p]: the unexported fields of p's benchmark instance
  pend,     \* pend[p]: the message p is about to write (randMsg / receivedMsg[:n])
  ticker,   \* b.ticker of the paced writer
  lst,      \* the echo-listener goroutine of the paced writer
  cc,       \* cc[p]: p's CombinedCounter and its tick-loop goroutine
  hist,     \* hist[p]: history of the run, read by the properties only
  run       \* how many times Writer and Reader were called on the instances

static == <<mode, env, cfg, run>>
vars == <<mode, env, cfg, pc, err, out, closed, faults, now, b, pend, ticker,
          lst, cc, hist, run>>

(* --------------------------- serialization ---------------------------- *)

DigitChar == <<"0", "1", "2", "3", "4", "5", "6", "7", "8", "9">>

RECURSIVE Digits(_)
\* encoding/json: an integer as its decimal digits
Digits(n) ==
  IF n < 10 THEN <<DigitChar[n + 1]>>
  ELSE Digits(n \div 10) \o <<DigitChar[(n % 10) + 1]>>

\* encoding/json: a bool as the literal true or false
BoolLit(v) == IF v THEN <<"t", "r", "u", "e">> ELSE <<"f", "a", "l", "s", "e">>

\* json.Marshal(b) of a PressuredBenchmark: the two tagged exported fields
MarshalPressured(c) ==
  <<"{", "message_size:">> \o Digits(c.MessageSize)
    \o <<",", "total_messages:">> \o Digits(c.TotalMessages) \o <<"}">>

\* json.Marshal(b) of an IntervalBenchmark: the four tagged exported fields
MarshalInterval(c) ==
  <<"{", "message_size:">> \o Digits(c.MessageSize)
    \o <<",", "total_messages:">> \o Digits(c.TotalMessages)
    \o <<",", "interval:">> \o Digits(c.Interval)
    \o <<",", "echo:">> \o BoolLit(c.Echo) \o <<"}">>

\* specJson, err := json.Marshal(b)
Marshal(p) ==
  IF mode = "pressured" THEN MarshalPressured(cfg[p]) ELSE MarshalInterval(cfg[p])

\* a message of s bytes as crand.Read fills it: s copies of one byte value
Messages(s) == {[i \in 1..s |-> c] : c \in Payloads}

(* ------------------------------ the conn ------------------------------ *)

\* another transport fault may be injected
Faulty == env = "faulty" /\ faults < MaxFaults

\* the timeout watcher may close a conn under a running call
Watched == env \in {"closing", "faulty"} /\ faults < MaxFaults

\* conn.Write blocks while the transport has no room for the data; a write
\* into an empty direction is always taken
Room(p, data) == out[p] = <<>> \/ Len(out[p]) + Len(data) <= BufCap

\* byte counts a failed or short write may have put on the wire
PartialLens(data) == {0} \cup (IF Len(data) > 1 THEN {Len(data) - 1} ELSE {})

\* a conn.Write that does not notice the peer's close: it goes on waiting
\* for room
WriteOutcomesPeerUnnoticed(p, data) ==
  IF closed[p] THEN {[n |-> 0, err |-> ErrClosed, fault |-> 0]}
  ELSE (IF Room(p, data) THEN {[n |-> Len(data), err |-> NoErr, fault |-> 0]} ELSE {})
       \cup (IF Faulty
             THEN {[n |-> k, err |-> ErrIO, fault |-> 1] : k \in PartialLens(data)}
             ELSE {})

\* the results conn.Write(data) on p's end can return now: n, err, and
\* whether the result is a transport fault; a write towards a closed peer
\* does not block: it is taken and dropped, or fails
WriteOutcomes(p, data) ==
  IF closed[p] THEN {[n |-> 0, err |-> ErrClosed, fault |-> 0]}
  ELSE IF closed[Peer(p)]
    THEN {[n |-> Len(data), err |-> NoErr, fault |-> 0],
          [n |-> 0, err |-> ErrIO, fault |-> 0]}
  ELSE (IF Room(p, data) THEN {[n |-> Len(data), err |-> NoErr, fault |-> 0]} ELSE {})
       \cup (IF Faulty
             THEN {[n |-> k, err |-> ErrIO, fault |-> 1] : k \in PartialLens(data)}
             ELSE {})

\* n < len(data) with a nil error: a transport breaking the io.Writer contract
ShortWrites(p, data) ==
  IF Faulty /\ ~closed[p] /\ ~closed[Peer(p)]
  THEN {[n |-> k, err |-> NoErr, fault |-> 1] : k \in PartialLens(data)}
  ELSE {}

\* out[p] after p's write put the first n bytes of data on the wire; bytes
\* written towards a closed peer are dropped
Sent(p, data, n) ==
  IF closed[Peer(p)] THEN out[p] ELSE out[p] \o SubSeq(data, 1, n)

\* the results one conn.Read into a buffer of size cap can return now; a
\* fragmented read returns one byte less than is there
ReadOutcomes(p, cap) ==
  LET s == out[Peer(p)]
      full == Min(Len(s), cap)
  IN IF closed[p] THEN {[n |-> 0, err |-> ErrClosed, fault |-> 0]}
     ELSE (IF s # <<>>
           THEN {[n |-> full, err |-> NoErr, fault |-> 0]}
                \cup (IF Faulty /\ full > 1
                      THEN {[n |-> full - 1, err |-> NoErr, fault |-> 1]} ELSE {})
           ELSE IF closed[Peer(p)] THEN {[n |-> 0, err |-> ErrEOF, fault |-> 0]}
           ELSE {})
          \cup (IF Faulty THEN {[n |-> 0, err |-> ErrIO, fault |-> 1]} ELSE {})

\* the results io.ReadFull(conn, buf) with len(buf) = s can return now;
\* expiry is "no" (no deadline passed), "due" (the deadline passed with no
\* echo on its way) or "stall" (it passed although an echo is on its way)
ReadFullOutcomes(p, s, expiry) ==
  LET avail == Len(out[Peer(p)])
  IN IF closed[p] THEN {[n |-> 0, err |-> ErrClosed, fault |-> 0]}
     ELSE (IF avail >= s THEN {[n |-> s, err |-> NoErr, fault |-> 0]}
           ELSE IF closed[Peer(p)]
             THEN {[n |-> avail, fault |-> 0,
                    err |-> IF avail = 0 THEN ErrEOF ELSE ErrUnexpectedEOF]}
           ELSE {})
          \cup (IF expiry = "due" /\ avail < s
                THEN {[n |-> avail, err |-> ErrDeadline, fault |-> 0]} ELSE {})
          \cup (IF expiry = "stall" /\ avail < s /\ Faulty
                THEN {[n |-> avail, err |-> ErrDeadline, fault |-> 1]} ELSE {})
          \cup (IF Faulty THEN {[n |-> 0, err |-> ErrIO, fault |-> 1]} ELSE {})

\* the peer's stream after p consumed n bytes of it
Taken(p, n) == SubSeq(out[Peer(p)], n + 1, Len(out[Peer(p)]))

\* the values time.Now() can return on a clock that stood at t
Readings(t) == {t + d : d \in Delays}

(* --------------------------- initial state ---------------------------- *)

\* the exported fields a caller may set; a PressuredBenchmark has no
\* Interval and no Echo
Specs(m) ==
  IF m = "pressured"
  THEN [MessageSize : 1..MaxMsgSize, TotalMessages : 1..MaxTotal,
        Interval : {0}, Echo : {FALSE}]
  ELSE [MessageSize : 1..MaxMsgSize, TotalMessages : 1..MaxTotal,
        Interval : 0..MaxInterval, Echo : BOOLEAN]

EmptyMap == [k \in {} |-> Unset]

\* the zero value of PressuredBenchmark / IntervalBenchmark's private fields
ZeroFields ==
  [messageSize |-> 0, successfulReads |-> 0, successfulWrites |-> 0,
   startTime |-> Unset, endTime |-> Unset,
   echoMap |-> EmptyMap, totalLatency |-> 0, totalMessagesWithLatency |-> 0]

NoCounter == [state |-> "nil", loop |-> "none", C |-> 0]
NoTicker == [active |-> FALSE, next |-> 0]
NoListener == [pc |-> "none", deadline |-> 0, exitedDueToDeadline |-> FALSE]
NoHist ==
  [specSent |-> FALSE, verified |-> FALSE, payload |-> FALSE,
   ioErr |-> NoErr, ioN |-> 0, ops |-> 0, early |-> FALSE]

Init ==
  /\ mode \in Modes
  /\ env \in Envs
  /\ cfg \in [Peers -> Specs(mode)]
  /\ pc = [p \in Peers |-> "idle"]
  /\ err = [p \in Peers |-> NoErr]
  /\ out = [p \in Peers |-> <<>>]
  /\ closed = [p \in Peers |-> FALSE]
  /\ faults = 0
  /\ now = [p \in Peers |-> 1]
  /\ b = [p \in Peers |-> ZeroFields]
  /\ pend = [p \in Peers |-> <<>>]
  /\ ticker = NoTicker
  /\ lst = NoListener
  /\ cc = [p \in Peers |-> NoCounter]
  /\ hist = [p \in Peers |-> NoHist]
  /\ run = 1

(* ------------------------- shared by the roles ------------------------ *)

\* a handshake that compares the lengths of the two specs only
HandshakeVerdictLengthOnly(spec, o, received) ==
  IF o.err # NoErr THEN o.err
  ELSE IF o.n # Len(spec) THEN ErrSpecRead
  ELSE NoErr

\* a handshake that accepts whatever its conn.Read returned
HandshakeVerdictNoCompare(spec, o, received) == o.err

\* the handshake's answer to one conn.Read that returned o with the bytes
\* received: the error to return, or nil when the peer's spec is accepted
HandshakeVerdict(spec, o, received) ==
  IF o.err # NoErr THEN o.err
  ELSE IF o.n # Len(spec) THEN ErrSpecRead
  ELSE IF received # spec THEN ErrSpecMismatch
  ELSE NoErr

\* a handshake that does not compare the count its conn.Write returned
SpecWriteVerdictAnyLength(spec, o) == o.err

\* the handshake's answer to its conn.Write that returned o
SpecWriteVerdict(spec, o) ==
  IF o.err # NoErr THEN o.err
  ELSE IF o.n # Len(spec) THEN ErrSpecWrite
  ELSE NoErr

\* "Benchmark starts": the fields a run re-initialises once the handshake passed
BeginFields(p) ==
  [b[p] EXCEPT !.messageSize = cfg[p].MessageSize,
               !.successfulReads = 0,
               !.successfulWrites = 0,
               !.startTime = now[p]]

\* CombineCounters(time.Second, counters...) followed by Start()
StartedCounter == [state |-> "running", loop |-> "alive", C |-> 0]

\* the deferred combinedCounter.Stop(): ticker.Stop(), close(c.closed);
\* ticker.Stop() does not drain the ticker's channel, so k, the number of
\* ticks delivered and not yet taken by the tick loop, is 0 or 1
StoppedCounter(c, k) == [c EXCEPT !.state = "stopped", !.C = k]

\* a deferred function that always stores time.Now(), as
\* PressuredBenchmark's does
EndTimeNoBackdate(p, t) == t

\* the value the deferred function stores into endTime when time.Now() is t
EndTime(p, t) ==
  IF p = W /\ mode = "interval" /\ lst.exitedDueToDeadline
  THEN t - OneSecond - cfg[p].Interval
  ELSE t

\* a return before "Benchmark starts": nothing is deferred yet
Return(p, e) ==
  /\ pc' = [pc EXCEPT ![p] = "done"]
  /\ err' = [err EXCEPT ![p] = e]

\* a return that stops the counter and stores no endTime
ReturnUnrecorded(p, e, f, t) ==
  /\ Return(p, e)
  /\ \E k \in {0, 1} : cc' = [cc EXCEPT ![p] = StoppedCounter(cc[p], k)]
  /\ b' = [b EXCEPT ![p] = f]
  /\ now' = [now EXCEPT ![p] = t]

\* a return after "Benchmark starts": the deferred calls run, last first;
\* f is the instance's fields as the loop left them, t what time.Now() returns
ReturnDeferred(p, e, f, t) ==
  /\ Return(p, e)
  /\ \E k \in {0, 1} : cc' = [cc EXCEPT ![p] = StoppedCounter(cc[p], k)]
  /\ b' = [b EXCEPT ![p] = [f EXCEPT !.endTime = EndTime(p, t)]]
  /\ now' = [now EXCEPT ![p] = t]

\* a loop that stops at total goes on after n rounds; the code reads
\* `i < b.TotalMessages` and `b.successfulReads.Load() < b.TotalMessages`
MoreToDoOffByOne(n, total) == n + 1 < total

\* the transfer loops' condition after n completed rounds
MoreToDo(n, total) == n < total

\* what a failed conn operation of the transfer loop leaves in the history
Failed(p, o) == [hist[p] EXCEPT !.ioErr = o.err, !.ioN = o.n]

(* ------------------------------ Writer -------------------------------- *)

\* Writer, handshake: json.Marshal(b) and conn.Write(specJson)
WriterHandshakeWrite ==
  /\ pc[W] = "idle"
  /\ LET spec == Marshal(W)
     IN \E o \in WriteOutcomes(W, spec) \cup ShortWrites(W, spec) :
          LET e == SpecWriteVerdict(spec, o)
          IN /\ out' = [out EXCEPT ![W] = Sent(W, spec, o.n)]
             /\ faults' = faults + o.fault
             /\ pc' = [pc EXCEPT ![W] = IF e = NoErr THEN "hsRead" ELSE "done"]
             /\ err' = [err EXCEPT ![W] = e]
             /\ hist' = [hist EXCEPT ![W].specSent = (e = NoErr)]
  /\ UNCHANGED <<static, closed, now, b, pend, ticker, lst, cc>>

\* PressuredBenchmark.Writer after its handshake: counter, fields, defers
PressuredWriterBegin ==
  /\ pc' = [pc EXCEPT ![W] = "write"]
  /\ err' = err
  /\ b' = [b EXCEPT ![W] = BeginFields(W)]
  /\ cc' = [cc EXCEPT ![W] = StartedCounter]
  /\ UNCHANGED <<closed, now, ticker, lst>>

\* a Writer that starts the listener whatever b.Echo says
SpawnedListenerAlways(echo) ==
  [pc |-> "start", deadline |-> 0, exitedDueToDeadline |-> FALSE]

\* the echo-listener as `go func()` leaves it: spawned, not yet run
SpawnedListener(echo) ==
  [pc |-> IF echo THEN "start" ELSE "none", deadline |-> 0,
   exitedDueToDeadline |-> FALSE]

\* IntervalBenchmark.Writer after its handshake: counter, fields, defers,
\* echoMap, the listener goroutine, and time.NewTicker(b.Interval), which
\* panics for an interval <= 0; the panic runs the deferred calls and ends
\* the process, its goroutines and its end of the conn
IntervalWriterBegin ==
  LET f == [BeginFields(W) EXCEPT !.echoMap = EmptyMap]
      panics == cfg[W].Interval <= 0
  IN /\ err' = err
     /\ now' = now
     /\ IF panics
        THEN /\ pc' = [pc EXCEPT ![W] = "panic"]
             /\ b' = [b EXCEPT ![W] = [f EXCEPT !.endTime = now[W]]]
             /\ cc' = [cc EXCEPT ![W] =
                         [StoppedCounter(StartedCounter, 0) EXCEPT !.loop = "dead"]]
             /\ lst' = [SpawnedListener(cfg[W].Echo) EXCEPT
                          !.pc = IF cfg[W].Echo THEN "dead" ELSE "none"]
             /\ closed' = [closed EXCEPT ![W] = TRUE]
             /\ ticker' = ticker
        ELSE /\ pc' = [pc EXCEPT ![W] = "tick"]
             /\ b' = [b EXCEPT ![W] = f]
             /\ cc' = [cc EXCEPT ![W] = StartedCounter]
             /\ lst' = SpawnedListener(cfg[W].Echo)
             /\ ticker' = [active |-> TRUE, next |-> now[W] + cfg[W].Interval]
             /\ closed' = closed

\* Writer, handshake: conn.Read of the peer's spec, the two checks, and on
\* success everything up to the transfer loop's first blocking call
WriterHandshakeRead ==
  /\ pc[W] = "hsRead"
  /\ LET spec == Marshal(W)
     IN \E o \in ReadOutcomes(W, 2 * Len(spec)) :
          LET e == HandshakeVerdict(spec, o, SubSeq(out[R], 1, o.n))
          IN /\ out' = [out EXCEPT ![R] = Taken(W, o.n)]
             /\ faults' = faults + o.fault
             /\ hist' = [hist EXCEPT ![W].verified = (e = NoErr)]
             /\ IF e # NoErr
                THEN Return(W, e) /\ UNCHANGED <<closed, now, b, ticker, lst, cc>>
                ELSE IF mode = "pressured" THEN PressuredWriterBegin
                ELSE IntervalWriterBegin
  /\ UNCHANGED <<static, pend>>

\* PressuredBenchmark.Writer, one iteration: crand.Read, conn.Write, Add(1)
PressuredWriterWrite ==
  /\ mode = "pressured"
  /\ pc[W] = "write"
  /\ \E msg \in Messages(b[W].messageSize), t \in Readings(now[W]) :
       \E o \in WriteOutcomes(W, msg) :
         LET f == [b[W] EXCEPT !.successfulWrites = @ + 1]
         IN /\ out' = [out EXCEPT ![W] = Sent(W, msg, o.n)]
            /\ faults' = faults + o.fault
            /\ IF o.err # NoErr
               THEN /\ ReturnDeferred(W, o.err, b[W], t)
                    /\ hist' = [hist EXCEPT ![W] =
                                  [Failed(W, o) EXCEPT !.payload = @ \/ o.n > 0]]
               ELSE /\ hist' = [hist EXCEPT ![W].payload = TRUE, ![W].ops = @ + 1]
                    /\ IF MoreToDo(f.successfulWrites, cfg[W].TotalMessages)
                       THEN /\ b' = [b EXCEPT ![W] = f]
                            /\ UNCHANGED <<pc, err, cc, now>>
                       ELSE ReturnDeferred(W, NoErr, f, t)
  /\ UNCHANGED <<static, closed, pend, ticker, lst>>

\* a send loop that records nothing in the echo map
MapStoreNothing(m, key, value) == m

\* sync.Map.Store(key, value)
MapStore(m, key, value) ==
  [k \in DOMAIN m \cup {key} |-> IF k = key THEN value ELSE m[k]]

\* the due time of the first tick of a ticker of period d after the tick due
\* at `due` was taken from its channel at time t (ticks that find the
\* channel full are dropped)
NextDue(due, d, t) == due + d * (((t - due) \div d) + 1)

\* IntervalBenchmark.Writer, first half of an iteration: <-b.ticker.C,
\* crand.Read and, with Echo, echoMap.Store(string(randMsg), time.Now())
IntervalWriterTick ==
  /\ mode = "interval"
  /\ pc[W] = "tick"
  /\ \E msg \in Messages(b[W].messageSize),
        t \in Readings(Max(now[W], ticker.next)) :
       /\ pend' = [pend EXCEPT ![W] = msg]
       /\ b' = [b EXCEPT ![W].echoMap =
                  IF cfg[W].Echo THEN MapStore(@, msg, t) ELSE @]
       /\ now' = [now EXCEPT ![W] = t]
       /\ ticker' = [ticker EXCEPT !.next = NextDue(@, cfg[W].Interval, t)]
  /\ pc' = [pc EXCEPT ![W] = "write"]
  /\ UNCHANGED <<static, err, out, closed, faults, lst, cc, hist>>

\* IntervalBenchmark.Writer, second half of an iteration: conn.Write(randMsg),
\* Add(1), and after the last one b.ticker.Stop()
IntervalWriterWrite ==
  /\ mode = "interval"
  /\ pc[W] = "write"
  /\ \E o \in WriteOutcomes(W, pend[W]), t \in Readings(now[W]) :
       LET f == [b[W] EXCEPT !.successfulWrites = @ + 1]
       IN /\ out' = [out EXCEPT ![W] = Sent(W, pend[W], o.n)]
          /\ faults' = faults + o.fault
          /\ IF o.err # NoErr
             THEN /\ ReturnDeferred(W, o.err, b[W], t)
                  /\ hist' = [hist EXCEPT ![W] =
                                [Failed(W, o) EXCEPT !.payload = @ \/ o.n > 0]]
                  /\ ticker' = ticker
             ELSE /\ hist' = [hist EXCEPT ![W].payload = TRUE, ![W].ops = @ + 1]
                  /\ b' = [b EXCEPT ![W] = f]
                  /\ UNCHANGED <<err, cc, now>>
                  /\ IF MoreToDo(f.successfulWrites, cfg[W].TotalMessages)
                     THEN /\ pc' = [pc EXCEPT ![W] = "tick"]
                          /\ ticker' = ticker
                     ELSE /\ pc' = [pc EXCEPT ![W] = "join"]
                          /\ ticker' = [ticker EXCEPT !.active = FALSE]
  /\ UNCHANGED <<static, closed, pend, lst>>

\* a Writer that hands on the failure of the listener's read, unless it was
\* the deadline
JoinResultListenerError(l) ==
  IF l.pc = "done" /\ ~l.exitedDueToDeadline THEN ErrIO ELSE NoErr

\* what Writer returns after wgEcho.Wait(): nil, whatever ended listener l
JoinResult(l) == NoErr

\* IntervalBenchmark.Writer: wgEcho.Wait() and return nil
IntervalWriterJoin ==
  /\ mode = "interval"
  /\ pc[W] = "join"
  /\ lst.pc \in {"none", "done"}
  /\ \E t \in Readings(now[W]) : ReturnDeferred(W, JoinResult(lst), b[W], t)
  /\ UNCHANGED <<static, out, closed, faults, pend, ticker, lst, hist>>

(* ---------------------------- echo-listener --------------------------- *)

\* a read deadline of Interval only, shorter than what the deferred function
\* subtracts
ReadDeadlineIntervalOnly(t) == t + cfg[W].Interval

\* the deadline conn.SetReadDeadline sets when time.Now() is t
ReadDeadline(t) == t + OneSecond + cfg[W].Interval

\* the listener goroutine starts running: make, SetReadDeadline, ReadFull
EchoListenerStart ==
  /\ lst.pc = "start"
  /\ lst' = [lst EXCEPT !.pc = "read", !.deadline = ReadDeadline(now[W])]
  /\ UNCHANGED <<static, pc, err, out, closed, faults, now, b, pend, ticker, cc, hist>>

\* an echo is on its way: one lies in the stream, or the reader is in its
\* loop and has one to write, a message to read, or one coming from the
\* send loop
EchoPending ==
  \/ Len(out[R]) >= b[W].messageSize
  \/ /\ pc[R] \in {"read", "echo"}
     /\ \/ pc[R] = "echo"
        \/ Len(out[W]) >= b[R].messageSize
        \/ pc[W] \in {"tick", "write"}

\* how the listener's read deadline can expire now
Expiry == IF EchoPending THEN "stall" ELSE "due"

\* a listener that counts every echo it takes as a successful read
MatchedCountsRead(f, key, t) ==
  IF key \in DOMAIN f.echoMap
  THEN [f EXCEPT !.totalMessagesWithLatency = @ + 1,
                 !.echoMap = [k \in DOMAIN @ \ {key} |-> @[k]],
                 !.totalLatency = @ + (t - f.echoMap[key]),
                 !.successfulReads = @ + 1]
  ELSE [f EXCEPT !.successfulReads = @ + 1]

\* a listener that counts a matched echo and leaves its entry in the map
MatchedKeepsEntry(f, key, t) ==
  IF key \in DOMAIN f.echoMap
  THEN [f EXCEPT !.totalMessagesWithLatency = @ + 1,
                 !.totalLatency = @ + (t - f.echoMap[key])]
  ELSE f

\* the listener's bookkeeping for one echo at time t: Load, Add(1),
\* CompareAndDelete, time.Since, Add(latency)
Matched(f, key, t) ==
  IF key \in DOMAIN f.echoMap
  THEN [f EXCEPT !.totalMessagesWithLatency = @ + 1,
                 !.echoMap = [k \in DOMAIN @ \ {key} |-> @[k]],
                 !.totalLatency = @ + (t - f.echoMap[key])]
  ELSE f

\* the listener, one iteration: io.ReadFull returns, the echo is matched and
\* the next deadline is set; or the read fails and the goroutine ends
EchoListenerRead ==
  /\ lst.pc = "read"
  /\ \E o \in ReadFullOutcomes(W, b[W].messageSize, Expiry) :
       /\ out' = [out EXCEPT ![R] = Taken(W, o.n)]
       /\ faults' = faults + o.fault
       /\ IF o.err = ErrDeadline
          THEN /\ \E t \in Readings(Max(now[W], lst.deadline)) :
                    now' = [now EXCEPT ![W] = t]
               /\ lst' = [lst EXCEPT !.pc = "done", !.exitedDueToDeadline = TRUE]
               /\ b' = b
          ELSE IF o.err # NoErr
          THEN /\ lst' = [lst EXCEPT !.pc = "done"]
               /\ UNCHANGED <<b, now>>
          ELSE \E t \in Readings(now[W]) :
                 /\ now' = [now EXCEPT ![W] = t]
                 /\ lst' = [lst EXCEPT !.deadline = ReadDeadline(t)]
                 /\ b' = [b EXCEPT ![W] = Matched(b[W], SubSeq(out[R], 1, o.n), t)]
  /\ UNCHANGED <<static, pc, err, closed, pend, ticker, cc, hist>>

(* ------------------------------ Reader -------------------------------- *)

\* Reader, handshake: json.Marshal(b), conn.Read of the peer's spec and the
\* two checks
ReaderHandshakeRead ==
  /\ pc[R] = "idle"
  /\ LET spec == Marshal(R)
     IN \E o \in ReadOutcomes(R, 2 * Len(spec)) :
          LET e == HandshakeVerdict(spec, o, SubSeq(out[W], 1, o.n))
          IN /\ out' = [out EXCEPT ![W] = Taken(R, o.n)]
             /\ faults' = faults + o.fault
             /\ pc' = [pc EXCEPT ![R] = IF e = NoErr THEN "hsWrite" ELSE "done"]
             /\ err' = [err EXCEPT ![R] = e]
             /\ hist' = [hist EXCEPT ![R].verified = (e = NoErr)]
  /\ UNCHANGED <<static, closed, now, b, pend, ticker, lst, cc>>

\* Reader, handshake: conn.Write(specJson), and on success everything up to
\* the transfer loop's first blocking call: counter, fields, defers
ReaderHandshakeWrite ==
  /\ pc[R] = "hsWrite"
  /\ LET spec == Marshal(R)
     IN \E o \in WriteOutcomes(R, spec) \cup ShortWrites(R, spec) :
          LET e == SpecWriteVerdict(spec, o)
          IN /\ out' = [out EXCEPT ![R] = Sent(R, spec, o.n)]
             /\ faults' = faults + o.fault
             /\ hist' = [hist EXCEPT ![R].specSent = (e = NoErr)]
             /\ IF e # NoErr
                THEN Return(R, e) /\ UNCHANGED <<b, cc>>
                ELSE /\ pc' = [pc EXCEPT ![R] = "read"]
                     /\ err' = err
                     /\ b' = [b EXCEPT ![R] = BeginFields(R)]
                     /\ cc' = [cc EXCEPT ![R] = StartedCounter]
  /\ UNCHANGED <<static, closed, now, pend, ticker, lst>>

\* what the Reader's loop returns for a failed io.ReadFull
ReadErrorResult(e) == IF e = ErrEOF \/ e = ErrClosed THEN NoErr ELSE e

\* PressuredBenchmark.Reader, one iteration: io.ReadFull, Add(1)
PressuredReaderRead ==
  /\ mode = "pressured"
  /\ pc[R] = "read"
  /\ \E o \in ReadFullOutcomes(R, b[R].messageSize, "no"), t \in Readings(now[R]) :
       LET f == [b[R] EXCEPT !.successfulReads = @ + 1]
       IN /\ out' = [out EXCEPT ![W] = Taken(R, o.n)]
          /\ faults' = faults + o.fault
          /\ IF o.err # NoErr
             THEN /\ ReturnDeferred(R, ReadErrorResult(o.err), b[R], t)
                  /\ hist' = [hist EXCEPT ![R] =
                                [Failed(R, o) EXCEPT !.payload = @ \/ o.n > 0]]
             ELSE /\ hist' = [hist EXCEPT ![R].payload = TRUE, ![R].ops = @ + 1]
                  /\ IF MoreToDo(f.successfulReads, cfg[R].TotalMessages)
                     THEN /\ b' = [b EXCEPT ![R] = f]
                          /\ UNCHANGED <<pc, err, cc, now>>
                     ELSE ReturnDeferred(R, NoErr, f, t)
  /\ UNCHANGED <<static, closed, pend, ticker, lst>>

\* IntervalBenchmark.Reader, first half of an iteration: io.ReadFull, Add(1);
\* without Echo the loop condition follows
IntervalReaderRead ==
  /\ mode = "interval"
  /\ pc[R] = "read"
  /\ \E o \in ReadFullOutcomes(R, b[R].messageSize, "no"), t \in Readings(now[R]) :
       LET f == [b[R] EXCEPT !.successfulReads = @ + 1]
       IN /\ out' = [out EXCEPT ![W] = Taken(R, o.n)]
          /\ faults' = faults + o.fault
          /\ IF o.err # NoErr
             THEN /\ ReturnDeferred(R, ReadErrorResult(o.err), b[R], t)
                  /\ hist' = [hist EXCEPT ![R] =
                                [Failed(R, o) EXCEPT !.payload = @ \/ o.n > 0]]
                  /\ pend' = pend
             ELSE /\ hist' = [hist EXCEPT ![R].payload = TRUE, ![R].ops = @ + 1]
                  /\ IF cfg[R].Echo
                     THEN /\ pc' = [pc EXCEPT ![R] = "echo"]
                          /\ pend' = [pend EXCEPT ![R] = SubSeq(out[W], 1, o.n)]
                          /\ b' = [b EXCEPT ![R] = f]
                          /\ UNCHANGED <<err, cc, now>>
                     ELSE /\ pend' = pend
                          /\ IF MoreToDo(f.successfulReads, cfg[R].TotalMessages)
                             THEN /\ b' = [b EXCEPT ![R] = f]
                                  /\ UNCHANGED <<pc, err, cc, now>>
                             ELSE ReturnDeferred(R, NoErr, f, t)
  /\ UNCHANGED <<static, closed, ticker, lst>>

\* an echo that leaves out the last byte received
EchoDataShort(buf, n) == SubSeq(buf, 1, n - 1)

\* receivedMsg[:n]: what the Reader writes back of its buffer after
\* io.ReadFull returned n
EchoData(buf, n) == SubSeq(buf, 1, n)

\* IntervalBenchmark.Reader, second half of an iteration with Echo:
\* conn.Write(receivedMsg[:n]) and the loop condition
IntervalReaderEcho ==
  /\ mode = "interval"
  /\ pc[R] = "echo"
  /\ \E o \in WriteOutcomes(R, EchoData(pend[R], Len(pend[R]))),
        t \in Readings(now[R]) :
       /\ out' = [out EXCEPT ![R] = Sent(R, EchoData(pend[R], Len(pend[R])), o.n)]
       /\ faults' = faults + o.fault
       /\ IF o.err # NoErr
          THEN /\ ReturnDeferred(R, o.err, b[R], t)
               /\ hist' = [hist EXCEPT ![R] = Failed(R, o)]
          ELSE /\ hist' = hist
               /\ IF MoreToDo(b[R].successfulReads, cfg[R].TotalMessages)
                  THEN /\ pc' = [pc EXCEPT ![R] = "read"]
                       /\ UNCHANGED <<err, cc, now, b>>
                  ELSE ReturnDeferred(R, NoErr, b[R], t)
  /\ UNCHANGED <<static, closed, pend, ticker, lst>>

(* --------------------------- CombinedCounter -------------------------- *)

\* the cases of the tick loop's select that are ready once Stop() was
\* called; before that the loop takes each tick as it is delivered and
\* CountAllNow() starts the CountNow() calls, which change nothing
ReadyCases(c) ==
  IF c.state = "stopped"
  THEN {"closed"} \cup (IF c.C > 0 THEN {"tick"} ELSE {})
  ELSE {}

\* the tick loop after its select took case k: CountAllNow(), or return
AfterSelect(c, k) ==
  IF k = "tick" THEN [c EXCEPT !.C = 0] ELSE [c EXCEPT !.loop = "exited"]

\* Start's goroutine, one iteration: select takes one of its ready cases
CounterLoop(p) ==
  /\ cc[p].loop = "alive"
  /\ \E k \in ReadyCases(cc[p]) : cc' = [cc EXCEPT ![p] = AfterSelect(cc[p], k)]
  /\ UNCHANGED <<static, pc, err, out, closed, faults, now, b, pend, ticker, lst, hist>>

(* ------------------------------ callers ------------------------------- *)

\* p's call has not ended, by a return or a panic
Running(p) == pc[p] \notin {"done", "panic"}

\* the Writer has messages left to send
SendingUnfinished == pc[W] \in {"idle", "hsRead", "tick", "write"}

\* the caller's end of the conn is closed: by `defer c.Close()` once the
\* call returned, or before that by the timeout watcher
Close(p) ==
  /\ ~closed[p]
  /\ pc[p] = "done" \/ Watched
  /\ closed' = [closed EXCEPT ![p] = TRUE]
  /\ faults' = faults + (IF pc[p] = "done" THEN 0 ELSE 1)
  /\ hist' = [hist EXCEPT ![p].early = SendingUnfinished]
  /\ UNCHANGED <<static, pc, err, out, now, b, pend, ticker, lst, cc>>

(* ------------------------------ Result() ------------------------------ *)

\* the call panics: endTime.Load() of a never-stored atomic.Value is nil and
\* the type assertion .(time.Time) on it fails
Panics == [panic |-> TRUE]

\* map[string]any{}
EmptyResult == [k \in {} |-> 0]

\* time.Time.Format(time.RFC3339): the time cut to whole seconds
RFC3339(t) == t \div OneSecond

\* combinedCounter.Results(): one report per counter; no CountNow() of the
\* package's counters records anything
CounterResults == [i \in 1..NumCounters |-> EmptyMap]

\* the keys every non-empty result has
BaseKeys ==
  {"successful_reads", "successful_writes", "start_time", "end_time",
   "duration", "counters"}

\* the value the result holds under key k; a quotient x / y is kept as <<x, y>>
ResultValue(p, k) ==
  LET f == b[p]
      elapsed == f.endTime - f.startTime
      ops == f.successfulReads + f.successfulWrites
  IN CASE k = "successful_reads" -> f.successfulReads
       [] k = "successful_writes" -> f.successfulWrites
       [] k = "start_time" -> RFC3339(f.startTime)
       [] k = "end_time" -> RFC3339(f.endTime)
       [] k = "duration" -> elapsed
       [] k = "counters" -> CounterResults
       [] k = "ops_per_s" -> <<ops, elapsed>>
       [] k = "latency_ns" ->
            IF mode = "pressured" THEN <<elapsed, ops>>
            ELSE <<f.totalLatency, f.totalMessagesWithLatency>>

\* a Result() that computes ops_per_s and latency_ns whatever was read
PressuredResultKeysUngated(f) == BaseKeys \cup {"ops_per_s", "latency_ns"}

\* PressuredBenchmark.Result(): the keys of the map it returns
PressuredResultKeys(f) ==
  BaseKeys \cup (IF f.successfulReads > 0 THEN {"ops_per_s", "latency_ns"} ELSE {})

\* a Result() that computes latency_ns when a message was read, as
\* PressuredBenchmark.Result() does
IntervalResultKeysLikePressured(f) ==
  BaseKeys \cup (IF f.successfulReads > 0 THEN {"ops_per_s", "latency_ns"} ELSE {})

\* IntervalBenchmark.Result(): the keys of the map it returns
IntervalResultKeys(f) ==
  BaseKeys \cup (IF f.successfulReads > 0 THEN {"ops_per_s"} ELSE {})
           \cup (IF f.totalMessagesWithLatency > 0 THEN {"latency_ns"} ELSE {})

\* Result() called on p's instance now
Result(p) ==
  LET f == b[p]
      keys == IF mode = "pressured" THEN PressuredResultKeys(f)
              ELSE IntervalResultKeys(f)
  IN IF f.endTime = Unset THEN Panics
     ELSE IF f.endTime - f.startTime = 0 THEN EmptyResult
     ELSE [k \in keys |-> ResultValue(p, k)]

(* --------------------------- the state machine ------------------------ *)

WriterStep ==
  \/ WriterHandshakeWrite
  \/ WriterHandshakeRead
  \/ PressuredWriterWrite
  \/ IntervalWriterTick
  \/ IntervalWriterWrite
  \/ IntervalWriterJoin

ListenerStep == EchoListenerStart \/ EchoListenerRead

ReaderStep ==
  \/ ReaderHandshakeRead
  \/ ReaderHandshakeWrite
  \/ PressuredReaderRead
  \/ IntervalReaderRead
  \/ IntervalReaderEcho

CounterStep == \E p \in Peers : CounterLoop(p)

CloseStep == \E p \in Peers : Close(p)

Next == WriterStep \/ ListenerStep \/ ReaderStep \/ CounterStep \/ CloseStep

Spec == Init /\ [][Next]_vars

\* the caller's deferred c.Close() once the call returned
DeferredClose == \E p \in Peers : pc[p] = "done" /\ Close(p)

\* the calls and the tasks they wait for; the tick loops, which share no
\* variable with them and never block them, are left to Spec
CallNext == WriterStep \/ ListenerStep \/ ReaderStep \/ CloseStep

\* the scheduler runs every goroutine that can take a step, and a call that
\* returned is followed by its caller's deferred Close
Fairness ==
  /\ WF_vars(WriterStep)
  /\ WF_vars(ListenerStep)
  /\ WF_vars(ReaderStep)
  /\ WF_vars(DeferredClose)

\* the runs whose transport does not fail
LiveInit == Init /\ env \in {"ideal", "closing"}

LiveSpec == LiveInit /\ [][CallNext]_vars /\ Fairness

\* a run completed, its tasks ended: Writer and Reader are called again on
\* the same two instances over a fresh conn.  The instances keep their
\* fields (b, cc, ticker), the clocks go on; the calls' locals start anew
Rerun ==
  /\ run < MaxRuns
  /\ \A p \in Peers : pc[p] = "done" /\ err[p] = NoErr
  /\ lst.pc \in {"none", "done"}
  /\ run' = run + 1
  /\ pc' = [p \in Peers |-> "idle"]
  /\ out' = [p \in Peers |-> <<>>]
  /\ closed' = [p \in Peers |-> FALSE]
  /\ pend' = [p \in Peers |-> <<>>]
  /\ lst' = NoListener
  /\ hist' = [p \in Peers |-> NoHist]
  /\ UNCHANGED <<mode, env, cfg, err, faults, now, b, ticker, cc>>

RerunNext == CallNext \/ Rerun

\* instances used for MaxRuns runs in a row over a transport that does not
\* fail
RerunInit == Init /\ env = "ideal"

RerunSpec == RerunInit /\ [][RerunNext]_vars

(* ------------------------------ properties ---------------------------- *)

Done(p) == pc[p] = "done"

\* both calls returned nil, with every message written and every message read
Completed ==
  /\ Done(W) /\ err[W] = NoErr
  /\ Done(R) /\ err[R] = NoErr
  /\ b[W].successfulWrites = cfg[W].TotalMessages
  /\ b[R].successfulReads = cfg[R].TotalMessages

\* the run has no transport fault and both peers hold the same spec
Undisturbed == env = "ideal" /\ cfg[W] = cfg[R]

\* C1: a PressuredBenchmark run with identical specs and no transport fault
\* leads to both calls having returned nil with successfulWrites ==
\* TotalMessages on the writer and successfulReads == TotalMessages on the
\* reader.
C1_PressuredCompletes == (mode = "pressured" /\ Undisturbed) ~> Completed

C1_Witness ==
  /\ mode = "pressured" /\ Undisturbed /\ Completed
  /\ cfg[W].TotalMessages = MaxTotal
  /\ cfg[W].MessageSize = MaxMsgSize

\* C2: an IntervalBenchmark run with Echo enabled, identical specs and no
\* transport fault leads to both calls having returned nil with all
\* messages written and read.
C2_EchoRunCompletes ==
  (mode = "interval" /\ Undisturbed /\ cfg[W].Echo) ~> Completed

\* the same for the runs whose Interval is positive
C2_PositiveIntervalCompletes ==
  (mode = "interval" /\ Undisturbed /\ cfg[W].Echo /\ cfg[W].Interval > 0)
    ~> Completed

\* C3: when the two MessageSize values differ, both calls that returned
\* returned the spec-mismatch error.
C3_BothSeeMismatch ==
  (cfg[W].MessageSize # cfg[R].MessageSize /\ Done(W) /\ Done(R))
    => (err[W] = ErrSpecMismatch /\ err[R] = ErrSpecMismatch)

\* C4: once either peer has written or read a payload byte, the two
\* serialized specs are byte-identical and each peer has sent its spec and
\* received and verified the other's.
C4_HandshakeBeforePayload ==
  (\E p \in Peers : hist[p].payload)
    => /\ Marshal(W) = Marshal(R)
       /\ \A p \in Peers : hist[p].specSent /\ hist[p].verified

C4_Witness ==
  /\ hist[W].payload /\ hist[R].payload
  /\ mode = "interval" /\ cfg[W].Echo
  /\ b[R].successfulReads = MaxTotal

\* the Reader's loop met end-of-stream or a closed conn on a read
EndOfStream(e) == e \in {ErrEOF, ErrUnexpectedEOF, ErrClosed}

\* C5: a Reader whose loop ended on end-of-stream or a closed-conn error,
\* at a message boundary or part-way through a message, returned nil.
C5_EndOfStreamIsSuccess ==
  (Done(R) /\ EndOfStream(hist[R].ioErr)) => err[R] = NoErr

\* C6: Result() on an instance whose endTime was never stored, or equals
\* startTime, returns the empty mapping.
C6_ResultOfUnfinishedRun ==
  \A p \in Peers :
    (b[p].endTime = Unset \/ b[p].endTime = b[p].startTime)
      => Result(p) = EmptyResult

\* p's loop ended on a failed write, or on a failed read that is no
\* end-of-stream
LoopFailed(p) ==
  Done(p) /\ hist[p].ioErr # NoErr /\ ~EndOfStream(hist[p].ioErr)

\* what Result() reports of the counters
Reported(p) ==
  /\ Result(p).successful_writes = (IF p = W THEN hist[p].ops ELSE 0)
  /\ Result(p).successful_reads = (IF p = R THEN hist[p].ops ELSE 0)

C8_ResultStable ==
  [][\A p \in Peers : Done(p) => Result(p)' = Result(p)]_vars

C10_NoEchoNoLatency ==
  (mode = "interval" /\ ~cfg[W].Echo) =>
    /\ lst.pc = "none"
    /\ b[W].echoMap = EmptyMap
    /\ b[W].totalLatency = 0
    /\ b[W].totalMessagesWithLatency = 0
    /\ "latency_ns" \notin DOMAIN Result(W)

C10_Witness ==
  /\ mode = "interval" /\ ~cfg[W].Echo /\ ~cfg[R].Echo
  /\ Done(W) /\ err[W] = NoErr
  /\ b[W].successfulWrites = MaxTotal
  /\ "duration" \in DOMAIN Result(W)

\* an IntervalBenchmark run with Echo on both peers, no transport fault and
\* so a lossless echo path, whose Writer returned nil
EchoRunReturned ==
  /\ mode = "interval" /\ Undisturbed /\ cfg[W].Echo
  /\ Done(W) /\ err[W] = NoErr

\* C11: when the Writer of an echo run over a lossless echo path has
\* returned, totalMessagesWithLatency == TotalMessages and Result() has a
\* latency_ns key.
C11_EverySendMatched ==
  EchoRunReturned =>
    /\ b[W].totalMessagesWithLatency = cfg[W].TotalMessages
    /\ "latency_ns" \in DOMAIN Result(W)

\* in such a run no send is left unmatched in the EchoTable: a count below
\* TotalMessages comes from sends whose entry a later send overwrote
C11_MatchedUnlessOverwritten ==
  EchoRunReturned =>
    /\ b[W].totalMessagesWithLatency <= cfg[W].TotalMessages
    /\ b[W].echoMap = EmptyMap
    /\ b[W].totalMessagesWithLatency >= 1

\* endTime - startTime as the Writer recorded them
Elapsed(p) == b[p].endTime - b[p].startTime

\* C12: an IntervalBenchmark.Writer with Echo that returned nil recorded an
\* elapsed duration of at least TotalMessages * Interval, backdated or not.
C12_PacingLowerBound ==
  (mode = "interval" /\ cfg[W].Echo /\ Done(W) /\ err[W] = NoErr)
    => Elapsed(W) >= cfg[W].TotalMessages * cfg[W].Interval

\* the same for the runs without a transport fault
C12_PacingLowerBoundUndisturbed ==
  EchoRunReturned => Elapsed(W) >= cfg[W].TotalMessages * cfg[W].Interval

\* C14: an IntervalBenchmark.Writer with Interval = 0 never crashes.
C14_ZeroIntervalRuns ==
  (mode = "interval" /\ cfg[W].Interval = 0) => pc[W] # "panic"

\* C13: an IntervalBenchmark.Reader with Echo counts each message it
\* received and holds exactly its bytes to write back; it reads no further
\* message before that echo is written, and a successful echo puts exactly
\* those bytes, in order, behind the earlier echoes.
C13_EchoesWhatItReceived ==
  [][/\ (pc[R] = "read" /\ pc'[R] = "echo") =>
          /\ b'[R].successfulReads = b[R].successfulReads + 1
          /\ pend'[R] = SubSeq(out[W], 1, b[R].messageSize)
          /\ out'[W] = SubSeq(out[W], b[R].messageSize + 1, Len(out[W]))
     /\ pc[R] = "echo" =>
          /\ Len(out'[W]) >= Len(out[W])
          /\ b'[R].successfulReads = b[R].successfulReads
          /\ (pc'[R] # "echo" /\ err'[R] = NoErr /\ ~closed[W]) =>
               out'[R] = out[R] \o pend[R]]_vars

C13_Witness ==
  /\ mode = "interval" /\ cfg[R].Echo
  /\ Done(R) /\ err[R] = NoErr
  /\ b[R].successfulReads = MaxTotal
  /\ b[R].messageSize = MaxMsgSize
  /\ b[W].totalMessagesWithLatency >= 1

\* an unthrottled run with identical specs and no fault, completed
PressuredRunCompleted == mode = "pressured" /\ Undisturbed /\ Completed

\* C16 as stated: after such a run both Result() report successful_reads ==
\* successful_writes == TotalMessages and contain ops_per_s.
C16_BothReportBothCounts ==
  \A p \in Peers :
    (PressuredRunCompleted /\ Elapsed(p) > 0) =>
      /\ Result(p).successful_reads = cfg[p].TotalMessages
      /\ Result(p).successful_writes = cfg[p].TotalMessages
      /\ "ops_per_s" \in DOMAIN Result(p)

\* C16: after such a run no recorded duration is negative, and where it is
\* not zero the writer's Result() reports successful_writes ==
\* TotalMessages, successful_reads == 0 and no ops_per_s, the reader's
\* reports successful_reads == TotalMessages, successful_writes == 0 and
\* ops_per_s > 0, and both report a duration > 0.
C16_EachReportsItsOwnCount ==
  PressuredRunCompleted =>
    /\ Elapsed(W) >= 0 /\ Elapsed(R) >= 0
    /\ Elapsed(W) # 0 =>
         /\ Result(W).successful_writes = cfg[W].TotalMessages
         /\ Result(W).successful_reads = 0
         /\ "ops_per_s" \notin DOMAIN Result(W)
         /\ Result(W).duration > 0
    /\ Elapsed(R) # 0 =>
         /\ Result(R).successful_reads = cfg[R].TotalMessages
         /\ Result(R).successful_writes = 0
         /\ "ops_per_s" \in DOMAIN Result(R)
         /\ Result(R).ops_per_s[1] > 0 /\ Result(R).ops_per_s[2] > 0
         /\ Result(R).duration > 0

C16_Witness ==
  /\ PressuredRunCompleted
  /\ Elapsed(W) > 0 /\ Elapsed(R) > 0
  /\ cfg[W].TotalMessages = MaxTotal

\* C17: on every return of Writer or Reader the CombinedCounter has been
\* stopped and endTime recorded, so that Result() yields a result.
C17_CleanupOnEveryExit ==
  \A p \in Peers :
    Done(p) =>
      /\ cc[p].state = "stopped"
      /\ b[p].endTime # Unset
      /\ Result(p) # Panics

\* the same for the returns of a call that passed its handshake
C17_CleanupAfterHandshake ==
  \A p \in Peers :
    (Done(p) /\ hist[p].specSent /\ hist[p].verified) =>
      /\ cc[p].state = "stopped"
      /\ b[p].endTime # Unset
      /\ Result(p) # Panics

\* p's call takes its handshake write, and what its conn put on the wire
\* is not the whole serialized spec
WroteSpecShort(p) ==
  /\ pc[p] = (IF p = W THEN "idle" ELSE "hsWrite")
  /\ pc'[p] # pc[p]
  /\ ~closed[Peer(p)]
  /\ out'[p] # out[p] \o Marshal(p)

\* p's call takes its handshake read, and the bytes it took off the stream
\* are not as many as its own serialized spec
ReadSpecShort(p) ==
  /\ pc[p] = (IF p = W THEN "hsRead" ELSE "idle")
  /\ pc'[p] # pc[p]
  /\ Len(out[Peer(p)]) - Len(out'[Peer(p)]) # Len(Marshal(p))

\* C18: a handshake whose spec write or spec read transfers a number of
\* bytes other than the serialized length returns an error in that very
\* step and leaves the instance's fields, counter and listener untouched; a
\* call that returned a handshake length error has an untouched instance,
\* no counter, and wrote no payload byte.
C18_PartialHandshakeAborts ==
  /\ [][\A p \in Peers :
          (WroteSpecShort(p) \/ ReadSpecShort(p)) =>
            /\ pc'[p] = "done" /\ err'[p] # NoErr
            /\ b'[p] = b[p] /\ cc'[p] = cc[p] /\ lst' = lst]_vars
  /\ [](\A p \in Peers :
          (Done(p) /\ err[p] \in {ErrSpecWrite, ErrSpecRead}) =>
            /\ b[p] = ZeroFields
            /\ cc[p] = NoCounter
            /\ ~hist[p].payload)

C18_Witness ==
  /\ Done(W) /\ err[W] = ErrSpecWrite
  /\ Done(R) /\ err[R] = ErrSpecRead
  /\ faults = 1

\* p's call returned after its handshake and recorded a positive duration
CompletedWithDuration(p) ==
  Done(p) /\ b[p].endTime # Unset /\ Elapsed(p) > 0

\* C19: for a completed run with positive elapsed time, Result() has
\* ops_per_s iff successfulReads > 0; PressuredBenchmark.Result() has
\* latency_ns under the same condition, with value elapsed / (reads +
\* writes); IntervalBenchmark.Result() has latency_ns iff
\* totalMessagesWithLatency > 0, with value totalLatency /
\* totalMessagesWithLatency.
C19_DerivedKeys ==
  \A p \in Peers :
    CompletedWithDuration(p) =>
      LET f == b[p]
          ops == f.successfulReads + f.successfulWrites
          res == Result(p)
      IN /\ ("ops_per_s" \in DOMAIN res) <=> (f.successfulReads > 0)
         /\ f.successfulReads > 0 => res.ops_per_s = <<ops, Elapsed(p)>>
         /\ IF mode = "pressured"
            THEN /\ ("latency_ns" \in DOMAIN res) <=> (f.successfulReads > 0)
                 /\ f.successfulReads > 0 => res.latency_ns = <<Elapsed(p), ops>>
            ELSE /\ ("latency_ns" \in DOMAIN res)
                      <=> (f.totalMessagesWithLatency > 0)
                 /\ f.totalMessagesWithLatency > 0 =>
                      res.latency_ns =
                        <<f.totalLatency, f.totalMessagesWithLatency>>

C19_Witness ==
  /\ mode = "interval"
  /\ CompletedWithDuration(W) /\ CompletedWithDuration(R)
  /\ b[W].totalMessagesWithLatency > 0 /\ b[W].totalLatency > 0
  /\ b[R].successfulReads > 0

\* IntervalBenchmark.Writer returns from a run it began
IntervalWriterReturns ==
  mode = "interval" /\ pc[W] \in {"write", "join"} /\ pc'[W] = "done"

\* the echo-listener's read ends with os.ErrDeadlineExceeded
ListenerTimesOut ==
  ~lst.exitedDueToDeadline /\ lst'.exitedDueToDeadline

\* C20: when an echo read's deadline (1 second + Interval after the read
\* began) passes, the listener exits and no error is reported for it: the
\* join that follows returns nil; the endTime stored when Writer returns is
\* the time of return minus (1 second + Interval) if the listener has exited
\* on its deadline, and the time of return otherwise (listener ended for
\* another reason or still reading, or Echo disabled).
C20_BackdatedOnDeadlineExit ==
  /\ [][/\ ListenerTimesOut =>
             /\ lst.pc = "read" /\ lst'.pc = "done"
             /\ now'[W] >= lst.deadline
             /\ pc' = pc /\ err' = err /\ b' = b
        /\ IntervalWriterReturns =>
             /\ b'[W].endTime =
                  IF lst.exitedDueToDeadline
                  THEN now'[W] - (OneSecond + cfg[W].Interval)
                  ELSE now'[W]
             /\ pc[W] = "join" => err'[W] = NoErr]_vars
  /\ [](lst.exitedDueToDeadline => mode = "interval" /\ cfg[W].Echo)

C20_Witness ==
  /\ mode = "interval" /\ cfg[W].Echo /\ cfg[W].Interval = MaxInterval
  /\ Done(W) /\ err[W] = NoErr
  /\ lst.pc = "done" /\ lst.exitedDueToDeadline
  /\ b[W].successfulWrites = MaxTotal
  /\ b[W].endTime = now[W] - (OneSecond + MaxInterval)

\* p's call of a later run passed its handshake and began the run; its
\* first message is still ahead
BeforeFirstMessage(p) ==
  /\ run > 1
  /\ hist[p].specSent /\ hist[p].verified
  /\ hist[p].ops = 0 /\ ~hist[p].payload
  /\ pc[p] = (IF p = R THEN "read" ELSE IF mode = "pressured" THEN "write" ELSE "tick")

\* C15: when Writer or Reader is called again on an instance that completed
\* a run, then once the handshake passed and before the first message of the
\* new run successfulReads, successfulWrites, totalLatency and
\* totalMessagesWithLatency are 0 and the echo map is empty.
C15_RerunStartsFromZero ==
  \A p \in Peers :
    BeforeFirstMessage(p) =>
      /\ b[p].successfulReads = 0
      /\ b[p].successfulWrites = 0
      /\ b[p].totalLatency = 0
      /\ b[p].totalMessagesWithLatency = 0
      /\ b[p].echoMap = EmptyMap

\* what the code does re-initialise
C15_RerunResetsCountsOnly ==
  \A p \in Peers :
    BeforeFirstMessage(p) =>
      /\ b[p].successfulReads = 0
      /\ b[p].successfulWrites = 0
      /\ b[p].startTime = now[p]
      /\ mode = "interval" /\ p = W => b[p].echoMap = EmptyMap

\* IntervalBenchmark.Writer with Echo returned from a run it began
EchoWriterReturned ==
  /\ mode = "interval" /\ cfg[W].Echo
  /\ Done(W) /\ hist[W].specSent /\ hist[W].verified

\* C21: once IntervalBenchmark.Writer with Echo has returned from a run, the
\* echo-listener has terminated.
C21_ListenerJoined == EchoWriterReturned => lst.pc = "done"

\* the join the code does have: before `return nil`
C21_ListenerJoinedOnSuccess ==
  (EchoWriterReturned /\ err[W] = NoErr) => lst.pc = "done"

\* the echo-listener's io.ReadFull returns a whole echo
ListenerReceives ==
  lst.pc = "read" /\ lst'.pc = "read" /\ Len(out'[R]) < Len(out[R])

\* the bytes of the echo at the head of the reader-to-writer stream
EchoAtHead == SubSeq(out[R], 1, b[W].messageSize)

\* C22: for every echo the listener receives, if its payload is a key of the
\* echo map, that entry is removed (the others stay), totalMessagesWithLatency
\* grows by 1 and totalLatency by now minus the recorded send time; if it is
\* not a key, the map and both totals are unchanged.  No other field changes.
C22_EchoBookkeeping ==
  [][ListenerReceives =>
       LET f == b[W]
           g == b'[W]
           key == EchoAtHead
       IN /\ out'[R] = SubSeq(out[R], b[W].messageSize + 1, Len(out[R]))
          /\ IF key \in DOMAIN f.echoMap
             THEN /\ DOMAIN g.echoMap = DOMAIN f.echoMap \ {key}
                  /\ \A k \in DOMAIN g.echoMap : g.echoMap[k] = f.echoMap[k]
                  /\ g.totalMessagesWithLatency = f.totalMessagesWithLatency + 1
                  /\ g.totalLatency = f.totalLatency + (now'[W] - f.echoMap[key])
             ELSE /\ g.echoMap = f.echoMap
                  /\ g.totalMessagesWithLatency = f.totalMessagesWithLatency
                  /\ g.totalLatency = f.totalLatency
          /\ g.successfulReads = f.successfulReads
          /\ g.successfulWrites = f.successfulWrites
          /\ g.startTime = f.startTime /\ g.endTime = f.endTime
          /\ b'[R] = b[R]]_vars

\* two messages with the same bytes were sent and echoed; the listener took
\* both echoes: the first was a hit, the second found no entry
C22_Witness ==
  /\ mode = "interval" /\ cfg[W].Echo /\ faults = 0
  /\ b[W].successfulWrites = 2 /\ b[R].successfulReads = 2
  /\ Done(R) /\ out[R] = <<>> /\ lst.pc = "done"
  /\ b[W].totalMessagesWithLatency = 1 /\ b[W].totalLatency > 0
  /\ b[W].echoMap = EmptyMap

\* p's handshake has passed
HandshakePassed(p) == hist[p].specSent /\ hist[p].verified

\* the CombinedCounter of p is started in the step that completes p's
\* handshake and stopped in the step in which p's call ends, which is the
\* step that stores endTime (the deferred Stop() runs before the deferred
\* store); it is never started or stopped otherwise
CounterBracket(p) ==
  cc'[p].state # cc[p].state =>
    \/ /\ cc[p].state = "nil" /\ cc'[p].state = "running"
       /\ ~HandshakePassed(p) /\ HandshakePassed(p)'
       /\ ~hist'[p].payload
    \/ /\ cc[p].state = "running" /\ cc'[p].state = "stopped"
       /\ Running(p) /\ pc'[p] = "done"
       /\ b'[p].endTime # Unset
    \/ /\ cc[p].state = "nil" /\ cc'[p].state = "stopped"
       /\ ~HandshakePassed(p) /\ HandshakePassed(p)'
       /\ pc'[p] = "panic"

\* no step takes a byte off the stream p reads or adds one to the stream p
\* writes
NoPayloadIO(p) ==
  Len(out'[p]) <= Len(out[p]) /\ Len(out'[Peer(p)]) >= Len(out[Peer(p)])

\* the echo-listener's read takes bytes off the reader-to-writer stream
ListenerTakesBytes == lst.pc = "read" /\ Len(out'[R]) < Len(out[R])

\* C23: in every run that passes the handshake the CombinedCounter is
\* started once, after the handshake and before the first payload byte is
\* read or written, and stopped once, after the last payload I/O of the run
\* and before endTime is recorded, whichever way the call ends.
C23_CounterBracketsPayload ==
  /\ [](\A p \in Peers :
          /\ ~HandshakePassed(p) => cc[p].state = "nil"
          /\ hist[p].payload => cc[p].state # "nil"
          /\ Done(p) /\ HandshakePassed(p) => cc[p].state = "stopped")
  /\ [][\A p \in Peers :
          /\ CounterBracket(p)
          /\ cc[p].state = "stopped" => NoPayloadIO(p)]_vars

\* the same with the echo-listener's reads left out of the run's payload I/O
C23_CounterBracketsCall ==
  /\ [](\A p \in Peers :
          /\ ~HandshakePassed(p) => cc[p].state = "nil"
          /\ hist[p].payload => cc[p].state # "nil"
          /\ Done(p) /\ HandshakePassed(p) => cc[p].state = "stopped")
  /\ [][\A p \in Peers :
          /\ CounterBracket(p)
          /\ (cc[p].state = "stopped" /\ ~ListenerTakesBytes) => NoPayloadIO(p)]_vars

\* p's tick loop takes a tick from c.ticker.C and calls CountAllNow(), which
\* starts CountNow() on every wrapped counter
DispatchesCountNow(p) ==
  cc[p].loop = "alive" /\ cc'[p].loop = "alive" /\ cc[p].C > 0 /\ cc'[p].C = 0

\* C24: once CombinedCounter.Stop() has returned, the tick loop dispatches
\* no further CountNow(), whichever of a pending tick and the close signal
\* its select takes.
C24_StopHaltsClock ==
  [][\A p \in Peers : cc[p].state = "stopped" => ~DispatchesCountNow(p)]_vars

\* what Stop() does ensure: at most one more dispatch, after which only the
\* close signal is left to take
C24_AtMostOneLateTick ==
  [][\A p \in Peers :
       (cc[p].state = "stopped" /\ DispatchesCountNow(p)) =>
         ReadyCases(cc'[p]) = {"closed"}]_vars

\* json.Marshal gives the two peers different bytes
SpecsDiffer == Marshal(W) # Marshal(R)

\* the Writer's handshake read returns
WriterLeavesHandshakeRead == pc[W] = "hsRead" /\ pc'[W] # "hsRead"

\* C25: when the serialized specs differ, the Reader returns an error
\* without writing its spec (it writes nothing at all), so the Writer's
\* handshake read returns only when a conn end is closed or the transport
\* fails, with that error; and whatever the specs are, the Writer never
\* returns the spec-mismatch error.
C25_OnlyReaderSeesMismatch ==
  /\ [](/\ err[W] # ErrSpecMismatch
        /\ SpecsDiffer =>
             /\ out[R] = <<>> /\ ~hist[R].specSent
             /\ pc[R] \in {"idle", "done"}
             /\ Done(R) => err[R] # NoErr
             /\ pc[W] \in {"idle", "hsRead", "done"})
  /\ [][(SpecsDiffer /\ WriterLeavesHandshakeRead) =>
          /\ pc'[W] = "done"
          /\ closed[W] \/ closed[R] \/ faults' > faults
          /\ err'[W] \in {ErrClosed, ErrEOF, ErrIO}]_vars

C25_Witness ==
  /\ SpecsDiffer
  /\ Done(R) /\ err[R] = ErrSpecMismatch
  /\ Done(W) /\ err[W] = ErrEOF /\ hist[W].specSent
  /\ closed[R] /\ ~closed[W] /\ faults = 0

\* C26: for every run whose transfer loop was entered, the recorded endTime
\* is not earlier than startTime, also when IntervalBenchmark.Writer
\* backdates it by 1 second + Interval after the listener's deadline exit.
C26_EndNotBeforeStart ==
  \A p \in Peers :
    (Done(p) /\ HandshakePassed(p)) =>
      /\ b[p].startTime # Unset /\ b[p].endTime # Unset
      /\ b[p].endTime >= b[p].startTime

\* a backdated endTime that meets startTime exactly
C26_Witness ==
  /\ mode = "interval" /\ cfg[W].Echo
  /\ Done(W) /\ HandshakePassed(W) /\ lst.exitedDueToDeadline
  /\ b[W].successfulWrites >= 1
  /\ b[W].endTime < now[W]
  /\ b[W].endTime = b[W].startTime

\* the send loop takes a tick and draws the next message
WriterDrawsMessage ==
  mode = "interval" /\ cfg[W].Echo /\ pc[W] = "tick" /\ pc'[W] = "write"

\* bytes are added to the writer-to-reader stream after the handshake
WriterSendsPayload ==
  mode = "interval" /\ cfg[W].Echo /\ HandshakePassed(W)
    /\ Len(out'[W]) > Len(out[W])

\* C27: with Echo, a message's entry is put into the echo map, with the
\* current time, in a step that writes nothing, and payload bytes are
\* written only after that step and are bytes of that message; so whenever
\* the listener processes an echo, either the entry is there and the
\* latency it computes is not negative, or an earlier echo of the same bytes
\* has removed it; totalLatency never decreases.
C27_StoredBeforeSent ==
  [][/\ WriterDrawsMessage =>
          /\ pend'[W] \in DOMAIN b'[W].echoMap
          /\ b'[W].echoMap[pend'[W]] = now'[W]
          /\ out'[W] = out[W]
     /\ WriterSendsPayload =>
          /\ pc[W] = "write"
          /\ \E n \in 1..Len(pend[W]) : out'[W] = out[W] \o SubSeq(pend[W], 1, n)
     /\ ListenerReceives =>
          IF EchoAtHead \in DOMAIN b[W].echoMap
          THEN now'[W] - b[W].echoMap[EchoAtHead] >= 0
          ELSE b[W].totalMessagesWithLatency >= 1
     /\ b'[W].totalLatency >= b[W].totalLatency]_vars

\* the listener has matched the first echo while the send loop stands
\* between the Store and the Write of the second message
C27_Witness ==
  /\ mode = "interval" /\ cfg[W].Echo
  /\ pc[W] = "write" /\ b[W].successfulWrites = 1
  /\ pend[W] \in DOMAIN b[W].echoMap
  /\ b[W].totalMessagesWithLatency = 1 /\ b[W].totalLatency > 0

\* C28: a Writer run never counts a read, echoes taken by the listener
\* included, and a Reader run never counts a write, echoes written back
\* included: the Writer's successfulReads and the Reader's successfulWrites
\* are 0 throughout, and Result() reports them as 0.
C28_OwnCounterOnly ==
  /\ [](/\ b[W].successfulReads = 0
        /\ b[R].successfulWrites = 0
        /\ (Done(W) /\ Result(W) # Panics /\ Result(W) # EmptyResult) =>
             Result(W).successful_reads = 0
        /\ (Done(R) /\ Result(R) # Panics /\ Result(R) # EmptyResult) =>
             Result(R).successful_writes = 0)
  /\ [][/\ b'[W].successfulReads = b[W].successfulReads
        /\ b'[R].successfulWrites = b[R].successfulWrites
        /\ b'[W].successfulWrites \in
             {b[W].successfulWrites, b[W].successfulWrites + 1}
        /\ b'[R].successfulReads \in
             {b[R].successfulReads, b[R].successfulReads + 1}]_vars

\* an echo run in which the listener took echoes and the Reader wrote them
C28_Witness ==
  /\ mode = "interval" /\ cfg[W].Echo
  /\ Done(W) /\ Done(R) /\ lst.pc = "done" /\ out[R] = <<>>
  /\ b[W].successfulWrites = MaxTotal /\ b[R].successfulReads = MaxTotal
  /\ b[W].totalMessagesWithLatency = MaxTotal
  /\ Result(W) # EmptyResult /\ Result(W).successful_reads = 0
  /\ Result(R) # EmptyResult /\ Result(R).successful_writes = 0

\* IntervalBenchmark.Writer returned from a run in which every one of its
\* TotalMessages writes succeeded
SendLoopCompleted ==
  /\ mode = "interval" /\ Done(W) /\ HandshakePassed(W)
  /\ b[W].successfulWrites = cfg[W].TotalMessages

\* C29: IntervalBenchmark.Writer returns nil whenever its send loop
\* completed all TotalMessages writes, whether the listener exited on its
\* deadline, on end-of-stream or a closed conn, or on another read error, or
\* was never started.
C29_ListenerErrorNotReturned ==
  /\ [](SendLoopCompleted => err[W] = NoErr /\ lst.pc \in {"none", "done"})
  /\ [][(mode = "interval" /\ pc[W] = "join" /\ pc'[W] # "join") =>
          pc'[W] = "done" /\ err'[W] = NoErr]_vars

\* the listener's read failed with a transport error and Writer returned nil
C29_Witness ==
  /\ SendLoopCompleted /\ cfg[W].Echo /\ err[W] = NoErr
  /\ lst.pc = "done" /\ ~lst.exitedDueToDeadline
  /\ faults = 1 /\ ~closed[W] /\ ~closed[R]
  /\ b[W].totalMessagesWithLatency < cfg[W].TotalMessages

====
